---- MODULE Spec2Model ----
(***************************************************************************)
(* Model of browsersessions.py: the SQLite store (sessions, pinned_tabs,   *)
(* credentials), the Flask request handlers working on it, and             *)
(* launch_chromium with the two generated extension directories.           *)
(*                                                                         *)
(* Every handler runs in a request thread.  A handler is split at each     *)
(* committed SQL statement and each filesystem write, which are the points *)
(* at which another thread can observe or change shared state.             *)
(***************************************************************************)
EXTENDS Integers, Sequences, FiniteSets, TLC

\* ------------------------------------------------------------------ bounds
MaxTabs == 2
MaxCreds == 1

Threads == {"t1", "t2"}
\* The thread that serves every request when requests are served in turn.
MainThread == "t1"
Names == {"home", "work"}
\* Form values; "" stands for a missing or empty field (falsy in Python).
Urls == {"", "https://mail.example.com"}
Websites == {"", "example.com"}
Usernames == {"bob"}
Passwords == {"", "secret"}

\* No row fetched / no value.
None == 0

\* The text of a file that has not been written.
NoFile == "<no file>"

VARIABLES
    sessions,            \* table sessions: set of [id, name]
    pinned_tabs,         \* table pinned_tabs: set of [id, session_id, url]
    credentials,         \* table credentials: set of [id, session_id, website, username, password]
    sqlite_sequence,     \* AUTOINCREMENT counters, one per table
    profiles,            \* profiles/<name>: "absent", "empty" or "used"
    auto_pin_extension,  \* text of auto_pin_extension/background.js, or NoFile
    auto_fill_extension, \* text of auto_fill_extension/background.js, or NoFile
    pc,                  \* position of each request thread
    req,                 \* the request each thread is serving
    loc,                 \* locals of the handler each thread is running
    returned             \* <<name, id>> pairs get_session_id has returned so far

vars == <<sessions, pinned_tabs, credentials, sqlite_sequence, profiles,
          auto_pin_extension, auto_fill_extension, pc, req, loc, returned>>

store == <<sessions, pinned_tabs, credentials, sqlite_sequence>>
files == <<profiles, auto_pin_extension, auto_fill_extension>>


\* ------------------------------------------------------------- SQL helpers
\* Rows of a table in rowid order, the order SELECT returns them in.
RECURSIVE RowOrder(_)
RowOrder(rows) ==
    IF rows = {} THEN <<>>
    ELSE LET first == CHOOSE r \in rows : \A q \in rows : r.id <= q.id
         IN  <<first>> \o RowOrder(rows \ {first})

\* INTEGER PRIMARY KEY AUTOINCREMENT: one more than the largest rowid ever used.
NextRowId(seq) == seq + 1

\* The stale value: the counter as it was before the INSERT.
LastRowIdBeforeInsert(seq) == seq

\* c.lastrowid after an INSERT that moved the table's counter from seq: the
\* rowid the new row was given.
LastRowId(seq) == NextRowId(seq)

\* SELECT id FROM sessions WHERE name=? ; fetchone()
SelectSessionId(table, session_name) ==
    LET rows == {r \in table : r.name = session_name}
    IN  IF rows = {} THEN None ELSE RowOrder(rows)[1].id

\* A sessions table declared without UNIQUE: no INSERT is refused.
NoUniqueConstraint(table, session_name) == FALSE

\* name TEXT UNIQUE: the INSERT fails when a row already carries the name.
UniqueViolation(table, session_name) ==
    \E r \in table : r.name = session_name

\* INSERT INTO sessions (name) VALUES (?)
InsertSession(table, seq, session_name) ==
    table \cup {[id |-> NextRowId(seq), name |-> session_name]}

\* The INSERT with session_id left out of the column list: the row gets NULL.
InsertPinnedTabNoSession(table, seq, session_id, url_value) ==
    table \cup {[id |-> NextRowId(seq), session_id |-> None, url |-> url_value]}

\* The INSERT made INSERT OR IGNORE over a UNIQUE(session_id, url): a URL the
\* session already pins is not stored again.
InsertPinnedTabOnce(table, seq, session_id, url_value) ==
    IF \E r \in table : r.session_id = session_id /\ r.url = url_value
    THEN table
    ELSE table \cup {[id |-> NextRowId(seq), session_id |-> session_id,
                      url |-> url_value]}

\* INSERT INTO pinned_tabs (session_id, url) VALUES (?, ?)
InsertPinnedTab(table, seq, session_id, url_value) ==
    table \cup {[id |-> NextRowId(seq), session_id |-> session_id, url |-> url_value]}

\* The INSERT with username and password bound in the wrong order.
InsertCredentialSwapped(table, seq, session_id, website, username, password) ==
    table \cup {[id |-> NextRowId(seq), session_id |-> session_id,
                 website |-> website, username |-> password, password |-> username]}

\* INSERT INTO credentials (session_id, website, username, password) VALUES (?, ?, ?, ?)
InsertCredential(table, seq, session_id, website, username, password) ==
    table \cup {[id |-> NextRowId(seq), session_id |-> session_id,
                 website |-> website, username |-> username, password |-> password]}

\* The DELETE with its comparison inverted (WHERE id!=?).
DeletePinnedTabOthers(table, tab_id) == {r \in table : r.id = tab_id}

\* DELETE FROM pinned_tabs WHERE id=?
DeletePinnedTabRow(table, tab_id) == {r \in table : r.id # tab_id}

\* DELETE FROM credentials WHERE id=?
DeleteCredentialRow(table, cred_id) == {r \in table : r.id # cred_id}

\* SELECT id, url FROM pinned_tabs WHERE session_id=? ; fetchall()
ListPinnedTabs(table, session_id) ==
    LET rows == RowOrder({r \in table : r.session_id = session_id})
    IN  [i \in 1..Len(rows) |-> <<rows[i].id, rows[i].url>>]

\* SELECT id, website, username, password FROM credentials WHERE session_id=? ; fetchall()
ListCredentials(table, session_id) ==
    LET rows == RowOrder({r \in table : r.session_id = session_id})
    IN  [i \in 1..Len(rows) |->
            <<rows[i].id, rows[i].website, rows[i].username, rows[i].password>>]

\* The SELECT without its WHERE clause: the URLs of every session.
SelectAllUrls(table, session_id) ==
    LET rows == RowOrder(table)
    IN  [i \in 1..Len(rows) |-> rows[i].url]

\* SELECT url FROM pinned_tabs WHERE session_id=? ; [row[0] for row in fetchall()]
SelectUrls(table, session_id) ==
    LET rows == RowOrder({r \in table : r.session_id = session_id})
    IN  [i \in 1..Len(rows) |-> rows[i].url]

\* The SELECT without its WHERE clause: the credentials of every session.
SelectAllCredentials(table, session_id) ==
    LET rows == RowOrder(table)
    IN  [i \in 1..Len(rows) |->
            [website |-> rows[i].website, username |-> rows[i].username,
             password |-> rows[i].password]]

\* SELECT website, username, password FROM credentials WHERE session_id=? ;
\* one dict per row
SelectCredentials(table, session_id) ==
    LET rows == RowOrder({r \in table : r.session_id = session_id})
    IN  [i \in 1..Len(rows) |->
            [website |-> rows[i].website, username |-> rows[i].username,
             password |-> rows[i].password]]

\* ------------------------------------------------------ generated scripts
Quote(s) == "\"" \o s \o "\""

RECURSIVE JsonJoin(_)
JsonJoin(items) ==
    IF Len(items) = 0 THEN ""
    ELSE IF Len(items) = 1 THEN items[1]
    ELSE items[1] \o ", " \o JsonJoin(Tail(items))

\* json.dumps of a list of strings
JsonDumpsUrls(urls) ==
    "[" \o JsonJoin([i \in 1..Len(urls) |-> Quote(urls[i])]) \o "]"

\* json.dumps of one credential dict
JsonDumpsCredential(cred) ==
    "{" \o Quote("website") \o ": " \o Quote(cred.website) \o ", "
        \o Quote("username") \o ": " \o Quote(cred.username) \o ", "
        \o Quote("password") \o ": " \o Quote(cred.password) \o "}"

\* json.dumps of the list of credential dicts
JsonDumpsCredentials(creds) ==
    "[" \o JsonJoin([i \in 1..Len(creds) |-> JsonDumpsCredential(creds[i])]) \o "]"

\* The line of auto_pin_extension/background.js that depends on the session.
AutopinBackground(pinned_urls) ==
    "const pinnedUrls = " \o JsonDumpsUrls(pinned_urls) \o ";"

\* The line of auto_fill_extension/background.js that depends on the session.
AutofillBackground(creds) ==
    "const credentials = " \o JsonDumpsCredentials(creds) \o ";"

\* ------------------------------------------------------------ thread state
NoReq ==
    [op |-> "none", session_name |-> "", fresh |-> FALSE, url |-> "",
     website |-> "", username |-> "", password |-> "", id |-> None]

NoLoc ==
    [session_id |-> None, urls |-> <<>>, credentials |-> <<>>,
     rmtree |-> FALSE, extensions |-> <<>>, command |-> <<>>,
     view |-> <<>>, spawned |-> FALSE]

\* A thread takes a new request when it is not inside a handler.
Ready(t) == pc[t] = "idle"

Begin(t, r, first) ==
    /\ Ready(t)
    /\ req' = [req EXCEPT ![t] = r]
    /\ loc' = [loc EXCEPT ![t] = NoLoc]
    /\ pc' = [pc EXCEPT ![t] = first]

Init ==
    /\ sessions = {}
    /\ pinned_tabs = {}
    /\ credentials = {}
    /\ sqlite_sequence = [sessions |-> 0, pinned_tabs |-> 0, credentials |-> 0]
    /\ profiles = [n \in Names |-> "absent"]
    /\ auto_pin_extension = NoFile
    /\ auto_fill_extension = NoFile
    /\ pc = [t \in Threads |-> "idle"]
    /\ req = [t \in Threads |-> NoReq]
    /\ loc = [t \in Threads |-> NoLoc]
    /\ returned = {}

\* ---------------------------------------------------------- get_session_id
\* Where the caller of get_session_id goes on once it has the id.
AfterGetSessionId(r) ==
    CASE r.op = "create_session" -> "done"
      [] r.op = "session_view" -> "session_view_select"
      [] r.op = "add_pinned_tab" ->
            IF r.url # "" THEN "add_pinned_tab_insert" ELSE "done"
      [] r.op = "add_credential" ->
            IF r.website # "" /\ r.password # ""
            THEN "add_credential_insert" ELSE "done"
      [] r.op = "launch_chromium" -> "launch_select_urls"

\* get_session_id, lines 56-60 and 64-67: the SELECT and, when a row is found,
\* the return of its id.
GetSessionIdSelect(t) ==
    /\ pc[t] = "get_session_id_select"
    /\ LET row == SelectSessionId(sessions, req[t].session_name)
       IN  IF row = None
           THEN /\ pc' = [pc EXCEPT ![t] = "get_session_id_insert"]
                /\ UNCHANGED <<loc, returned>>
           ELSE /\ loc' = [loc EXCEPT ![t].session_id = row]
                /\ returned' = returned \cup {<<req[t].session_name, row>>}
                /\ pc' = [pc EXCEPT ![t] = AfterGetSessionId(req[t])]
    /\ UNCHANGED <<store, files, req>>

\* get_session_id, lines 61-63 and 66-67: the INSERT, its commit and the
\* return of lastrowid.  A UNIQUE violation raises sqlite3.IntegrityError,
\* which nothing catches.
GetSessionIdInsert(t) ==
    /\ pc[t] = "get_session_id_insert"
    /\ IF UniqueViolation(sessions, req[t].session_name)
       THEN /\ pc' = [pc EXCEPT ![t] = "error"]
            /\ UNCHANGED <<sessions, sqlite_sequence, loc, returned>>
       ELSE /\ sessions' = InsertSession(sessions, sqlite_sequence.sessions,
                                         req[t].session_name)
            /\ sqlite_sequence' =
                 [sqlite_sequence EXCEPT !.sessions = NextRowId(@)]
            /\ loc' = [loc EXCEPT ![t].session_id =
                                      LastRowId(sqlite_sequence.sessions)]
            /\ returned' = returned \cup
                 {<<req[t].session_name, LastRowId(sqlite_sequence.sessions)>>}
            /\ pc' = [pc EXCEPT ![t] = AfterGetSessionId(req[t])]
    /\ UNCHANGED <<pinned_tabs, credentials, files, req>>

\* ------------------------------------------------------------ store routes
\* create_session: an empty session_name skips get_session_id.
CreateSession(t) ==
    \E n \in Names \cup {""} :
        /\ Begin(t, [NoReq EXCEPT !.op = "create_session", !.session_name = n],
                 IF n # "" THEN "get_session_id_select" ELSE "done")
        /\ UNCHANGED <<store, files, returned>>

SessionView(t) ==
    \E n \in Names :
        /\ Begin(t, [NoReq EXCEPT !.op = "session_view", !.session_name = n],
                 "get_session_id_select")
        /\ UNCHANGED <<store, files, returned>>

\* session_view, lines 599-608: the two listings the page is rendered from.
SessionViewSelect(t) ==
    /\ pc[t] = "session_view_select"
    /\ loc' = [loc EXCEPT ![t].view =
                 <<ListPinnedTabs(pinned_tabs, loc[t].session_id),
                   ListCredentials(credentials, loc[t].session_id)>>]
    /\ pc' = [pc EXCEPT ![t] = "done"]
    /\ UNCHANGED <<store, files, req, returned>>

AddPinnedTab(t) ==
    \E n \in Names, u \in Urls :
        /\ sqlite_sequence.pinned_tabs < MaxTabs
        /\ Begin(t, [NoReq EXCEPT !.op = "add_pinned_tab", !.session_name = n,
                                  !.url = u],
                 "get_session_id_select")
        /\ UNCHANGED <<store, files, returned>>

\* add_pinned_tab, lines 622-629
AddPinnedTabInsert(t) ==
    /\ pc[t] = "add_pinned_tab_insert"
    /\ sqlite_sequence.pinned_tabs < MaxTabs
    /\ pinned_tabs' = InsertPinnedTab(pinned_tabs, sqlite_sequence.pinned_tabs,
                                      loc[t].session_id, req[t].url)
    /\ sqlite_sequence' = [sqlite_sequence EXCEPT !.pinned_tabs = NextRowId(@)]
    /\ pc' = [pc EXCEPT ![t] = "done"]
    /\ UNCHANGED <<sessions, credentials, files, req, loc, returned>>

AddCredential(t) ==
    \E n \in Names, w \in Websites, u \in Usernames, p \in Passwords :
        /\ sqlite_sequence.credentials < MaxCreds
        /\ Begin(t, [NoReq EXCEPT !.op = "add_credential", !.session_name = n,
                                  !.website = w, !.username = u, !.password = p],
                 "get_session_id_select")
        /\ UNCHANGED <<store, files, returned>>

\* add_credential, lines 640-648
AddCredentialInsert(t) ==
    /\ pc[t] = "add_credential_insert"
    /\ sqlite_sequence.credentials < MaxCreds
    /\ credentials' = InsertCredential(credentials, sqlite_sequence.credentials,
                                       loc[t].session_id, req[t].website,
                                       req[t].username, req[t].password)
    /\ sqlite_sequence' = [sqlite_sequence EXCEPT !.credentials = NextRowId(@)]
    /\ pc' = [pc EXCEPT ![t] = "done"]
    /\ UNCHANGED <<sessions, pinned_tabs, files, req, loc, returned>>

\* delete_pinned_tab: one statement; session_name only names the page the
\* redirect goes to.
DeletePinnedTab(t) ==
    \E n \in Names, i \in 1..(MaxTabs + 1) :
        /\ Begin(t, [NoReq EXCEPT !.op = "delete_pinned_tab",
                                  !.session_name = n, !.id = i], "done")
        /\ pinned_tabs' = DeletePinnedTabRow(pinned_tabs, i)
        /\ UNCHANGED <<sessions, credentials, sqlite_sequence, files, returned>>

\* delete_credential: as delete_pinned_tab, on the credentials table.
DeleteCredential(t) ==
    \E n \in Names, i \in 1..(MaxCreds + 1) :
        /\ Begin(t, [NoReq EXCEPT !.op = "delete_credential",
                                  !.session_name = n, !.id = i], "done")
        /\ credentials' = DeleteCredentialRow(credentials, i)
        /\ UNCHANGED <<sessions, pinned_tabs, sqlite_sequence, files, returned>>

\* ---------------------------------------------------------------- launcher
\* launch_chromium is entered from run_session (always fresh=True) and from
\* the command line (--session, with or without --fresh).
LaunchChromium(t) ==
    \E n \in Names, f \in BOOLEAN :
        /\ Begin(t, [NoReq EXCEPT !.op = "launch_chromium", !.session_name = n,
                                  !.fresh = f],
                 "get_session_id_select")
        /\ UNCHANGED <<store, files, returned>>

\* launch_chromium, lines 209-210
LaunchSelectUrls(t) ==
    /\ pc[t] = "launch_select_urls"
    /\ loc' = [loc EXCEPT ![t].urls = SelectUrls(pinned_tabs, loc[t].session_id)]
    /\ pc' = [pc EXCEPT ![t] = "launch_select_credentials"]
    /\ UNCHANGED <<store, files, req, returned>>

\* launch_chromium, lines 213-216
LaunchSelectCredentials(t) ==
    /\ pc[t] = "launch_select_credentials"
    /\ loc' = [loc EXCEPT ![t].credentials =
                              SelectCredentials(credentials, loc[t].session_id)]
    /\ pc' = [pc EXCEPT ![t] = "launch_profile"]
    /\ UNCHANGED <<store, files, req, returned>>

\* Line 219: whether shutil.rmtree runs.
RemovesProfile(fresh, dir) == fresh /\ dir # "absent"

\* Lines 219-221: the profile directory after the optional rmtree and
\* os.makedirs(profile_dir, exist_ok=True).
ProfileDir(fresh, dir) ==
    IF RemovesProfile(fresh, dir) \/ dir = "absent" THEN "empty" ELSE dir

\* launch_chromium, lines 218-221
LaunchProfile(t) ==
    /\ pc[t] = "launch_profile"
    /\ loc' = [loc EXCEPT ![t].rmtree =
                 RemovesProfile(req[t].fresh, profiles[req[t].session_name])]
    /\ profiles' = [profiles EXCEPT ![req[t].session_name] =
                                        ProfileDir(req[t].fresh, @)]
    /\ pc' = [pc EXCEPT ![t] = "launch_autopin"]
    /\ UNCHANGED <<store, auto_pin_extension, auto_fill_extension, req, returned>>

\* launch_chromium, lines 231-236, with create_autopin_extension: use_autopin
\* is True at both call sites.
LaunchAutopin(t) ==
    /\ pc[t] = "launch_autopin"
    /\ auto_pin_extension' = AutopinBackground(loc[t].urls)
    /\ loc' = [loc EXCEPT ![t].extensions = Append(@, "auto_pin_extension")]
    /\ pc' = [pc EXCEPT ![t] = IF loc[t].credentials # <<>>
                               THEN "launch_autofill" ELSE "launch_popen"]
    /\ UNCHANGED <<store, profiles, auto_fill_extension, req, returned>>

\* launch_chromium, lines 236-238, with create_autofill_extension
LaunchAutofill(t) ==
    /\ pc[t] = "launch_autofill"
    /\ auto_fill_extension' = AutofillBackground(loc[t].credentials)
    /\ loc' = [loc EXCEPT ![t].extensions = Append(@, "auto_fill_extension")]
    /\ pc' = [pc EXCEPT ![t] = "launch_popen"]
    /\ UNCHANGED <<store, profiles, auto_pin_extension, req, returned>>

\* Lines 225-229 and 240-243: the command line handed to subprocess.Popen.
Command(session_name, extensions, urls) ==
    [user_data_dir |-> session_name, load_extension |-> extensions,
     urls |-> urls]

\* launch_chromium, lines 240-251: Popen either starts the browser, which
\* then writes into its profile directory, or raises, which is caught and
\* printed.
LaunchPopen(t) ==
    /\ pc[t] = "launch_popen"
    /\ \E ok \in BOOLEAN :
        /\ loc' = [loc EXCEPT ![t].command =
                                  Command(req[t].session_name,
                                          loc[t].extensions, loc[t].urls),
                              ![t].spawned = ok]
        /\ profiles' = [profiles EXCEPT ![req[t].session_name] =
                                            IF ok THEN "used" ELSE @]
    /\ pc' = [pc EXCEPT ![t] = "done"]
    /\ UNCHANGED <<store, auto_pin_extension, auto_fill_extension, req, returned>>

\* The handler returns its response (the redirect or the rendered page) or,
\* at "error", is left by the uncaught exception; the thread is free again.
Respond(t) ==
    /\ pc[t] \in {"done", "error"}
    /\ pc' = [pc EXCEPT ![t] = "idle"]
    /\ req' = [req EXCEPT ![t] = NoReq]
    /\ loc' = [loc EXCEPT ![t] = NoLoc]
    /\ UNCHANGED <<store, files, returned>>

\* --------------------------------------------------------- specifications
\* A request for one of the routes that only work on the store.
StoreRequest(t) ==
    \/ CreateSession(t)
    \/ SessionView(t)
    \/ AddPinnedTab(t)
    \/ AddCredential(t)
    \/ DeletePinnedTab(t)
    \/ DeleteCredential(t)

\* The next statement of a store handler.
StoreStep(t) ==
    \/ GetSessionIdSelect(t)
    \/ GetSessionIdInsert(t)
    \/ SessionViewSelect(t)
    \/ AddPinnedTabInsert(t)
    \/ AddCredentialInsert(t)
    \/ Respond(t)

\* The next statement of launch_chromium after get_session_id.
LaunchStep(t) ==
    \/ LaunchSelectUrls(t)
    \/ LaunchSelectCredentials(t)
    \/ LaunchProfile(t)
    \/ LaunchAutopin(t)
    \/ LaunchAutofill(t)
    \/ LaunchPopen(t)

\* Requests served one at a time, store routes and launches alike, by one
\* thread: the command line, or the web interface used from one browser tab.
Next ==
    \/ StoreRequest(MainThread)
    \/ LaunchChromium(MainThread)
    \/ StoreStep(MainThread)
    \/ LaunchStep(MainThread)

Spec == Init /\ [][Next]_vars

\* Store routes served by concurrent threads (the development server is
\* threaded): handlers overlap, each SQL statement is atomic, and a request is
\* taken whenever a thread is free.
ConcurrentNext == \E t \in Threads : StoreRequest(t) \/ StoreStep(t)

ConcurrentSpec == Init /\ [][ConcurrentNext]_vars

\* run_session, lines 652-655: the web route of a launch, always fresh.
RunSession(t) ==
    \E n \in Names :
        /\ Begin(t, [NoReq EXCEPT !.op = "launch_chromium", !.session_name = n,
                                  !.fresh = TRUE],
                 "get_session_id_select")
        /\ UNCHANGED <<store, files, returned>>

\* No handler is running on any thread.
Quiescent == \A t \in Threads : Ready(t)

\* No handler of a store route is running on any thread.
NoStoreHandler == \A t \in Threads : req[t].op \in {"none", "launch_chromium"}

\* Launches requested through the web interface and served by concurrent
\* threads: the handlers of /run_session overlap, each filesystem write and
\* the Popen being one step.  The sessions are edited between the launches:
\* a request for a store route is taken while no handler is running, and a
\* launch while no store handler is.
LaunchNext ==
    \E t \in Threads :
        \/ Quiescent /\ StoreRequest(t)
        \/ NoStoreHandler /\ RunSession(t)
        \/ StoreStep(t)
        \/ LaunchStep(t)

LaunchSpec == Init /\ [][LaunchNext]_vars

\* ----------------------------------------------------------------- claims
\* The id of the session called session_name in a sessions table, None when
\* there is none.
SessionIdIn(table, session_name) ==
    IF \E r \in table : r.name = session_name
    THEN (CHOOSE r \in table : r.name = session_name).id
    ELSE None

SessionIdOf(session_name) == SessionIdIn(sessions, session_name)

\* The rows of a table that belong to the session called session_name.
RowsOf(table, session_name) ==
    {r \in table : r.session_id = SessionIdOf(session_name)}

\* The rows of a set in the order of their ids.
InIdOrder(rows) ==
    [i \in 1..Cardinality(rows) |->
        CHOOSE r \in rows : Cardinality({q \in rows : q.id < r.id}) = i - 1]

\* The URLs pinned for the session called session_name, in the order stored.
StoredUrls(session_name) ==
    LET rows == InIdOrder(RowsOf(pinned_tabs, session_name))
    IN  [i \in DOMAIN rows |-> rows[i].url]

\* The credentials stored for the session called session_name, in the order
\* stored.
StoredCredentials(session_name) ==
    LET rows == InIdOrder(RowsOf(credentials, session_name))
    IN  [i \in DOMAIN rows |->
            [website |-> rows[i].website, username |-> rows[i].username,
             password |-> rows[i].password]]

\* How many entries of the pinned-tab listing of a session carry the URL u.
UrlCount(table, session_id, u) ==
    LET listing == ListPinnedTabs(table, session_id)
    IN  Cardinality({i \in DOMAIN listing : listing[i][2] = u})

\* Thread t's handler finishes in this step.
Completes(t) == pc[t] \notin {"idle", "done", "error"} /\ pc'[t] = "done"

\* Thread t has got an id back from get_session_id and is still in, or at the
\* end of, the handler that asked for it.
HasSessionId(t) == loc[t].session_id # None

\* C1: get_session_id never returns two different ids for the same session
\* name, whatever requests (adds, deletes, calls for other names, launches)
\* were served between the calls.
C1_SameIdForSameName ==
    \A p \in returned : \A q \in returned : p[1] = q[1] => p[2] = q[2]

\* C1 witness: a call for a name has just found the row (it is before its own
\* INSERT into pinned_tabs) while the session already has a pinned tab, stored
\* under the id an earlier call for the same name returned, and the other
\* session exists as well.
C1_Witness ==
    \E t \in Threads :
        /\ pc[t] = "add_pinned_tab_insert"
        /\ \E r \in pinned_tabs : r.session_id = loc[t].session_id
        /\ <<req[t].session_name, loc[t].session_id>> \in returned
        /\ Cardinality(returned) = 2

\* C2: no two rows of the sessions table carry the same name, also when two
\* callers of get_session_id for one name interleave their SELECT and INSERT.
C2_NameUnique ==
    \A r \in sessions : \A q \in sessions : r.name = q.name => r = q

\* C2 witness: a caller whose SELECT found no row was refused its INSERT,
\* because the other caller had inserted the name in between.
C2_Witness ==
    \E t \in Threads :
        /\ pc[t] = "error"
        /\ \E r \in sessions : r.name = req[t].session_name

\* C3: the session_id of every pinned_tabs row and of every credentials row is
\* the id of a row of the sessions table.
C3_ForeignKeys ==
    /\ \A r \in pinned_tabs : \E s \in sessions : s.id = r.session_id
    /\ \A r \in credentials : \E s \in sessions : s.id = r.session_id

\* C3 witness: both sessions exist, one owns a pinned tab and the other a
\* credential, after a delete and a launch have been served.
C3_Witness ==
    /\ \E r \in pinned_tabs : \E c \in credentials : r.session_id # c.session_id
    /\ Cardinality(pinned_tabs) < sqlite_sequence.pinned_tabs
    /\ auto_pin_extension # NoFile

\* C4: a caller of get_session_id that loses the race to create a name
\* recovers by re-reading the row, so no call ends in an error.
C4_RaceRecovered ==
    \A t \in Threads :
        /\ pc[t] # "error"
        /\ HasSessionId(t) => loc[t].session_id = SessionIdOf(req[t].session_name)

\* C5 as stated: once add_pinned_tab(s, u) has completed, the listing of the
\* pinned tabs of s contains u exactly once.
C5_ListedExactlyOnce ==
    [][\A t \in Threads :
          (Completes(t) /\ req[t].op = "add_pinned_tab" /\ req[t].url # "")
          => UrlCount(pinned_tabs', SessionIdIn(sessions', req[t].session_name),
                      req[t].url) = 1]_vars

\* C5 as amended: once add_pinned_tab(s, u) with a non-empty u has completed,
\* the listing of the pinned tabs of s contains u exactly one more time than
\* before, and every other URL as often as before; with an empty u the
\* handler completes without changing pinned_tabs.
C5_ListedOnceMore ==
    [][\A t \in Threads :
          (Completes(t) /\ req[t].op = "add_pinned_tab")
          => LET sid == SessionIdIn(sessions', req[t].session_name)
             IN  IF req[t].url # ""
                 THEN \A u \in Urls :
                        UrlCount(pinned_tabs', sid, u) =
                          UrlCount(pinned_tabs, sid, u)
                            + (IF u = req[t].url THEN 1 ELSE 0)
                 ELSE pinned_tabs' = pinned_tabs]_vars

\* C5 witness: add_pinned_tab has completed for a URL its session already
\* pinned, and the listing now carries the URL twice.
C5_Witness ==
    \E t \in Threads :
        /\ pc[t] = "done"
        /\ req[t].op = "add_pinned_tab"
        /\ req[t].url # ""
        /\ UrlCount(pinned_tabs, SessionIdOf(req[t].session_name), req[t].url) = 2

\* C6: delete_pinned_tab and delete_credential called with an id that matches
\* no row complete without an error and leave the three tables unchanged.
C6_DeleteMissingIsNoOp ==
    [][\A t \in Threads :
          /\ ( /\ pc[t] = "idle"
               /\ req'[t].op = "delete_pinned_tab"
               /\ \A r \in pinned_tabs : r.id # req'[t].id )
             => ( /\ pc'[t] = "done"
                  /\ UNCHANGED <<sessions, pinned_tabs, credentials>> )
          /\ ( /\ pc[t] = "idle"
               /\ req'[t].op = "delete_credential"
               /\ \A r \in credentials : r.id # req'[t].id )
             => ( /\ pc'[t] = "done"
                  /\ UNCHANGED <<sessions, pinned_tabs, credentials>> )]_vars

\* C6 witness: delete_pinned_tab has completed for an id no row ever had,
\* while the table holds a row.
C6_Witness ==
    \E t \in Threads :
        /\ pc[t] = "done"
        /\ req[t].op = "delete_pinned_tab"
        /\ req[t].id > sqlite_sequence.pinned_tabs
        /\ pinned_tabs # {}

Spawns(t) == pc[t] = "launch_popen" /\ pc'[t] = "done"

\* C8: when launch_chromium(name, fresh=True) starts the browser, the profile
\* directory of the session has been removed and recreated empty, the URL
\* list in the generated auto-pin script is exactly the list of URLs pinned
\* for the session, and the same list is passed as the initial tabs.
C8_FreshLaunch ==
    [][\A t \in Threads :
          (Spawns(t) /\ req[t].fresh)
          => /\ profiles[req[t].session_name] = "empty"
             /\ auto_pin_extension =
                  AutopinBackground(StoredUrls(req[t].session_name))
             /\ loc'[t].command.urls = StoredUrls(req[t].session_name)
             /\ loc'[t].command.user_data_dir = req[t].session_name]_vars

\* C8 witness: a fresh launch has removed a profile directory a browser had
\* used and has started the browser on the pinned URL of its session, while
\* the other session pins a URL too.
C8_Witness ==
    \E t \in Threads :
        /\ pc[t] = "done"
        /\ req[t].op = "launch_chromium"
        /\ req[t].fresh
        /\ loc[t].rmtree
        /\ loc[t].spawned
        /\ Len(loc[t].command.urls) = 1
        /\ \E r \in pinned_tabs : r.session_id # loc[t].session_id

\* C9 as stated: whenever launch_chromium has run, the credential list in the
\* auto-fill directory's background script is the credential list of the
\* session just launched.
C9_AutofillOfLaunched ==
    [][\A t \in Threads :
          Spawns(t)
          => auto_fill_extension' =
               AutofillBackground(StoredCredentials(req[t].session_name))]_vars

\* C9 as amended: every launch rewrites the auto-pin script with the URLs of
\* the session launched; the auto-fill script is rewritten only by the launch
\* of a session that has a credential, and then holds that session's
\* credential list and is loaded; the launch of a session without credentials
\* leaves the auto-fill directory as it was and does not load it.
C9_AutofillWhenCredentials ==
    [][/\ \A t \in Threads :
            Spawns(t)
            => /\ auto_pin_extension' =
                    AutopinBackground(StoredUrls(req[t].session_name))
               /\ IF StoredCredentials(req[t].session_name) # <<>>
                  THEN /\ auto_fill_extension' =
                            AutofillBackground(
                                StoredCredentials(req[t].session_name))
                       /\ loc'[t].command.load_extension =
                            <<"auto_pin_extension", "auto_fill_extension">>
                  ELSE loc'[t].command.load_extension = <<"auto_pin_extension">>
       /\ auto_fill_extension' # auto_fill_extension
            => \E t \in Threads :
                  /\ req[t].op = "launch_chromium"
                  /\ StoredCredentials(req[t].session_name) # <<>>]_vars

\* C9 witness: a session without credentials has been launched while the
\* auto-fill directory holds the credentials of the session launched earlier;
\* the directory is not among the extensions loaded.
C9_Witness ==
    \E t \in Threads :
        /\ pc[t] = "done"
        /\ req[t].op = "launch_chromium"
        /\ StoredCredentials(req[t].session_name) = <<>>
        /\ auto_fill_extension # NoFile
        /\ loc[t].command.load_extension = <<"auto_pin_extension">>

\* C10: a delete request on the route of session A removes only rows of
\* session A: the pinned tabs and the credentials of every other session are
\* the same after it, whatever the id.
C10_DeleteStaysInSession ==
    [][\A t \in Threads :
          ( /\ pc[t] = "idle"
            /\ req'[t].op \in {"delete_pinned_tab", "delete_credential"} )
          => LET a == SessionIdOf(req'[t].session_name)
             IN  /\ {r \in pinned_tabs : r.session_id # a} =
                      {r \in pinned_tabs' : r.session_id # a}
                 /\ {r \in credentials : r.session_id # a} =
                      {r \in credentials' : r.session_id # a}]_vars

\* C11: when launches of two sessions interleave, at the moment a launch
\* hands its command to Popen the auto-pin script holds the URL list of the
\* session it launches, and the auto-fill script, when the command loads it,
\* holds the credential list of that session.
C11_OwnExtensionsAtSpawn ==
    [][\A t \in Threads :
          Spawns(t)
          => /\ auto_pin_extension =
                  AutopinBackground(StoredUrls(req[t].session_name))
             /\ "auto_fill_extension" \in
                    {loc[t].extensions[i] : i \in DOMAIN loc[t].extensions}
                  => auto_fill_extension =
                       AutofillBackground(
                           StoredCredentials(req[t].session_name))]_vars

====
